---- MODULE Spec2Model ----
(***************************************************************************)
(* entrypoint.py: a GitHub Action that turns a pull-request comment such   *)
(* as "deploy to staging" into a GitHub deployment.                        *)
(*                                                                         *)
(* Python str values that the program slices, strips, lower-cases or       *)
(* formats into messages are sequences of one-character strings; values    *)
(* that are only compared for equality (action, state, mergeable_state)    *)
(* are plain strings.  Python's None, where a str may stand, is None.      *)
(***************************************************************************)
EXTENDS Integers, Sequences, FiniteSets, TLC

VARIABLES
    environ,            \* os.environ: a function from the names that are set
    eventFile,          \* the JSON document at GITHUB_EVENT_PATH
    pc,                 \* the statement of __main__ that runs next
    CONFIG,             \* the module-level CONFIG dict
    event,              \* the loaded webhook event
    pr,                 \* the pull request load_pr returned
    environment_name,   \* what parse_message returned
    environment,        \* what get_environment returned
    e,                  \* the DeploymentFailure an except clause holds
    http,               \* the HTTP requests issued so far, in order
    log,                \* the non-debug lines printed so far, in order
    outputs,            \* the ::set-output lines printed so far
    exit,               \* the exit code, -1 while the process runs
    exc                 \* the exception that ended the process, "" if none

vars == <<environ, eventFile, pc, CONFIG, event, pr, environment_name,
          environment, e, http, log, outputs, exit, exc>>

-----------------------------------------------------------------------------
(* Strings.                                                                *)

None == <<"<None>">>

\* "deploy to", the default of INPUT_TRIGGER_PHRASE
S_deploy_to == <<"d", "e", "p", "l", "o", "y", " ", "t", "o">>
S_slash_deploy == <<"/", "d", "e", "p", "l", "o", "y">>
S_true == <<"t", "r", "u", "e">>
S_True == <<"T", "r", "u", "e">>
S_false == <<"f", "a", "l", "s", "e">>
S_staging == <<"s", "t", "a", "g", "i", "n", "g">>
S_prod == <<"p", "r", "o", "d">>
S_qa == <<"q", "a">>
S_production == <<"p", "r", "o", "d", "u", "c", "t", "i", "o", "n">>
S_envs_json == <<"e", "n", "v", "s", ".", "j", "s", "o", "n">>
S_octocat == <<"o", "c", "t", "o", "c", "a", "t">>
S_repo == <<"o", "/", "r">>
S_sha1 == <<"a", "1">>
S_sha2 == <<"b", "2">>

B_deploy_to_staging == <<"d", "e", "p", "l", "o", "y", " ", "t", "o", " ", "s", "t", "a", "g", "i", "n", "g">>
B_deploy_to == <<"d", "e", "p", "l", "o", "y", " ", "t", "o">>
B_deploy_to_blank == <<"d", "e", "p", "l", "o", "y", " ", "t", "o", " ", " ">>
B_deploy_to_prod_padded == <<"d", "e", "p", "l", "o", "y", " ", "t", "o", " ", " ", "p", "r", "o", "d", " ", "\n">>
B_deploy_to_qa == <<"d", "e", "p", "l", "o", "y", " ", "t", "o", " ", "q", "a">>
B_Deploy_to_staging == <<"D", "e", "p", "l", "o", "y", " ", "t", "o", " ", "s", "t", "a", "g", "i", "n", "g">>
B_please_deploy == <<"p", "l", "e", "a", "s", "e", " ", "d", "e", "p", "l", "o", "y", " ", "t", "o", " ", "p", "r", "o", "d">>
B_lgtm == <<"L", "G", "T", "M">>
B_slash_deploy_staging == <<"/", "d", "e", "p", "l", "o", "y", " ", "s", "t", "a", "g", "i", "n", "g">>

\* str.startswith
startswith(s, prefix) ==
    Len(s) >= Len(prefix) /\ SubSeq(s, 1, Len(prefix)) = prefix

\* the characters str.strip() removes
Whitespace == {" ", "\t", "\n", "\r"}

RECURSIVE lstrip(_)
lstrip(s) ==
    IF s # <<>> /\ Head(s) \in Whitespace THEN lstrip(Tail(s)) ELSE s

RECURSIVE rstrip(_)
rstrip(s) ==
    IF s # <<>> /\ s[Len(s)] \in Whitespace
    THEN rstrip(SubSeq(s, 1, Len(s) - 1))
    ELSE s

\* str.strip
strip(s) == rstrip(lstrip(s))

LowerChar(c) ==
    CASE c = "T" -> "t"
      [] c = "R" -> "r"
      [] c = "U" -> "u"
      [] c = "E" -> "e"
      [] c = "F" -> "f"
      [] c = "A" -> "a"
      [] c = "L" -> "l"
      [] c = "S" -> "s"
      [] OTHER -> c

\* str.lower, on the letters of the values the flags take
lower(s) == [i \in 1..Len(s) |-> LowerChar(s[i])]

\* os.environ.get(name, default)
environ_get(env, name, default) ==
    IF name \in DOMAIN env THEN env[name] ELSE default

\* the truth value of a str or None
Truthy(v) == v # None /\ v # <<>>

\* A message: an f-string's template and the values formatted into it.
Msg(text, args) == [text |-> text, args |-> args]

NoMsg == Msg("", <<>>)

-----------------------------------------------------------------------------
(* The state of a run as one record, so that a function of the source is    *)
(* an operator from state to state.                                        *)

St == [pc |-> pc, CONFIG |-> CONFIG, event |-> event, pr |-> pr,
       environment_name |-> environment_name, environment |-> environment,
       e |-> e, http |-> http, log |-> log, outputs |-> outputs,
       exit |-> exit, exc |-> exc]

Apply(s) ==
    /\ pc' = s.pc
    /\ CONFIG' = s.CONFIG
    /\ event' = s.event
    /\ pr' = s.pr
    /\ environment_name' = s.environment_name
    /\ environment' = s.environment
    /\ e' = s.e
    /\ http' = s.http
    /\ log' = s.log
    /\ outputs' = s.outputs
    /\ exit' = s.exit
    /\ exc' = s.exc
    /\ UNCHANGED <<environ, eventFile>>

\* a dict the program has not assigned yet
Unset == [unset |-> TRUE]

\* print(msg) and error(msg); debug lines are not kept
Emit(s, level, msg) ==
    [s EXCEPT !.log = Append(@, [level |-> level, msg |-> msg])]

\* requests.get / requests.post: the request, with what came back
Request(s, req) == [s EXCEPT !.http = Append(@, req)]

\* sys.exit(code), which no except clause of the program catches
SysExit(s, code) == [s EXCEPT !.pc = "exited", !.exit = code]

\* an exception no except clause catches: traceback, exit status 1
Uncaught(s, type) == [s EXCEPT !.pc = "exited", !.exit = 1, !.exc = type]

Goto(s, label) == [s EXCEPT !.pc = label]

\* what an HTTP call can come back with: a 2xx response, an error status,
\* or no response at all (requests raises ConnectionError)
Responses == {"2xx", "4xx", "ConnectionError"}


\* What a function of the source hands back: the state it left, the exception
\* it raised ("" if it returned), the exception's message and its return value.
Return(s, ret) == [s |-> s, raised |-> "", e |-> NoMsg, code |-> 0, ret |-> ret]

Raise(s, type, msg) ==
    [s |-> s, raised |-> type, e |-> msg, code |-> 1, ret |-> None]

\* sys.exit(code) inside a function
RaiseSystemExit(s, code) ==
    [s |-> s, raised |-> "SystemExit", e |-> NoMsg, code |-> code, ret |-> None]

-----------------------------------------------------------------------------
(* The functions of entrypoint.py.                                         *)

\* add_comment returning at once when comments are disabled
add_comment_skips_log(s, url, msg, is_error, resp) ==
    LET s1 == Emit(s, IF is_error THEN "error" ELSE "plain", msg)
        s2 == Request(s1, [method |-> "POST", kind |-> "comment",
                           url |-> url, json |-> [body |-> msg],
                           response |-> [code |-> resp]])
    IN  IF s.CONFIG.comment
        THEN IF resp = "2xx" THEN Return(s2, None)
             ELSE Raise(s2, IF resp = "4xx" THEN "HTTPError" ELSE resp, NoMsg)
        ELSE Return(s, None)

\* add_comment(url, msg, is_error); resp is what the POST comes back with
add_comment(s, url, msg, is_error, resp) ==
    LET s1 == Emit(s, IF is_error THEN "error" ELSE "plain", msg)
        s2 == Request(s1, [method |-> "POST", kind |-> "comment",
                           url |-> url, json |-> [body |-> msg],
                           response |-> [code |-> resp]])
    IN  IF s.CONFIG.comment
        THEN IF resp = "2xx" THEN Return(s2, None)
             ELSE Raise(s2, IF resp = "4xx" THEN "HTTPError" ELSE resp, NoMsg)
        ELSE Return(s1, None)

\* parse_message(comment)
parse_message(s, comment) ==
    LET message == comment.body
        author == comment.user.login
        trigger == s.CONFIG.trigger
        env == strip(SubSeq(message, Len(trigger) + 1, Len(message)))
    IN  IF ~startswith(message, trigger)
        THEN RaiseSystemExit(
                 Emit(s, "plain",
                      Msg("Comment from {author} does not match the comment trigger ({trigger}).",
                          <<author, trigger>>)),
                 0)
        ELSE IF env = <<>>
        THEN Raise(s, "DeploymentFailure",
                   Msg("No environment specified (usage: {trigger} environment).",
                       <<trigger>>))
        ELSE Return(s, env)

RECURSIVE LastNamed(_, _)
\* the loop of get_environment keeping the last match instead of returning
LastNamed(envs, name) ==
    IF envs = <<>> THEN 0
    ELSE IF envs[Len(envs)].name = name THEN Len(envs)
    ELSE LastNamed(SubSeq(envs, 1, Len(envs) - 1), name)

RECURSIVE FirstNamed(_, _)
\* the for loop of get_environment: the index of the first record of envs
\* whose name is the one asked for, 0 if the loop ends without one
FirstNamed(envs, name) ==
    IF envs = <<>> THEN 0
    ELSE IF Head(envs).name = name THEN 1
    ELSE LET k == FirstNamed(Tail(envs), name)
         IN  IF k = 0 THEN 0 ELSE k + 1

\* get_environment(environment); file is what CONFIG["env_file"] holds when
\* it is opened
get_environment(s, name, file) ==
    IF ~Truthy(s.CONFIG.env_file)
    THEN Return(s, [name |-> name])
    ELSE IF ~file.readable THEN Raise(s, "FileNotFoundError", NoMsg)
    ELSE IF ~file.json THEN Raise(s, "JSONDecodeError", NoMsg)
    ELSE LET k == FirstNamed(file.envs, name)
         IN  IF k # 0
             THEN Return(s, file.envs[k])
             ELSE Raise(s, "DeploymentFailure",
                        Msg("Environment '{environment}' doesn't exist in CONFIG['env_file'] ({env_file}).",
                            <<name, s.CONFIG.env_file>>))

\* load_pr(url): the GET goes to CONFIG["pr_url"], not to url
load_pr(s, url, resp, body) ==
    IF "pr_url" \notin DOMAIN s.CONFIG THEN Raise(s, "KeyError", NoMsg)
    ELSE LET s1 == Request(s, [method |-> "GET", kind |-> "pull_request",
                               url |-> s.CONFIG.pr_url,
                               response |-> [code |-> resp]])
         IN  IF resp = "2xx" THEN Return(s1, body)
             ELSE Raise(s1, IF resp = "4xx" THEN "HTTPError" ELSE resp, NoMsg)

\* the "* context" lines of check_commit: one for every status of the list
Contexts(statuses) == [i \in 1..Len(statuses) |-> statuses[i].context]

\* what the status GET comes back with: the combined state, on a 2xx response
StatusResponse(resp, status) ==
    [code |-> resp, state |-> IF resp = "2xx" THEN status.state ELSE ""]

\* check_commit refusing a "failure" state only
check_commit_failure_only(s, head_repo, sha, resp, status) ==
    IF s.CONFIG.ignore_status_checks THEN Return(s, None)
    ELSE LET s1 == Request(s, [method |-> "GET", kind |-> "status",
                               repo |-> head_repo, sha |-> sha,
                               response |-> StatusResponse(resp, status)])
         IN  IF resp # "2xx"
             THEN Raise(s1, IF resp = "4xx" THEN "HTTPError" ELSE resp, NoMsg)
             ELSE IF status.state = "failure"
             THEN Raise(s1, "DeploymentFailure",
                        Msg("The following status checks are not green for {sha}:\n{failed}.",
                            <<sha>> \o [i \in 1..Len(status.statuses) |->
                                           status.statuses[i].context]))
             ELSE Return(s1, None)

\* check_commit(head_repo, sha); status is the combined status GitHub holds
check_commit(s, head_repo, sha, resp, status) ==
    IF s.CONFIG.ignore_status_checks THEN Return(s, None)
    ELSE LET s1 == Request(s, [method |-> "GET", kind |-> "status",
                               repo |-> head_repo, sha |-> sha,
                               response |-> StatusResponse(resp, status)])
         IN  IF resp # "2xx"
             THEN Raise(s1, IF resp = "4xx" THEN "HTTPError" ELSE resp, NoMsg)
             ELSE IF status.state # "success"
             THEN Raise(s1, "DeploymentFailure",
                        Msg("The following status checks are not green for {sha}:\n{failed}.",
                            <<sha>> \o Contexts(status.statuses)))
             ELSE Return(s1, None)

\* dict.get(key, default) of an environment record
flag_get(d, key, default) == IF key \in DOMAIN d THEN d[key] ELSE default

\* the params dict with the required_contexts test inverted
DeploymentParams_inverted(s, ref, env, description) ==
    LET params == [ref |-> ref,
                   environment |-> env.name,
                   description |-> description,
                   transient_environment |-> flag_get(env, "transient", FALSE),
                   production_environment |-> flag_get(env, "production", TRUE)]
    IN  IF ~s.CONFIG.ignore_status_checks
        THEN [k \in DOMAIN params \cup {"required_contexts"} |->
                 IF k = "required_contexts" THEN <<>> ELSE params[k]]
        ELSE params

\* the params dict of trigger_deployment
DeploymentParams(s, ref, env, description) ==
    LET params == [ref |-> ref,
                   environment |-> env.name,
                   description |-> description,
                   transient_environment |-> flag_get(env, "transient", FALSE),
                   production_environment |-> flag_get(env, "production", TRUE)]
    IN  IF s.CONFIG.ignore_status_checks
        THEN [k \in DOMAIN params \cup {"required_contexts"} |->
                 IF k = "required_contexts" THEN <<>> ELSE params[k]]
        ELSE params

\* set_deployment_outputs(deployment_response)
set_deployment_outputs(s, deployment) ==
    [s EXCEPT !.outputs = @ \o <<[name |-> "deployment_id", value |-> deployment.id],
                                 [name |-> "deployment_api_url", value |-> deployment.url]>>]

\* trigger_deployment(head_repo, ref, environment, description)
trigger_deployment(s, head_repo, ref, env, description, resp) ==
    LET s1 == Request(s, [method |-> "POST", kind |-> "deployment",
                          repo |-> head_repo,
                          json |-> DeploymentParams(s, ref, env, description),
                          response |-> [code |-> resp]])
    IN  IF resp = "ConnectionError" THEN Raise(s1, resp, NoMsg)
        ELSE IF resp # "2xx"
        THEN Raise(s1, "DeploymentFailure",
                   Msg("Failed to trigger deployment ({text})", <<>>))
        ELSE Return(set_deployment_outputs(s1, [id |-> 1, url |-> head_repo]), None)

\* validate_pr with "or" for "and" in the draft exemption
validate_pr_draft_or(s, p) ==
    IF p.draft /\ ~s.CONFIG.allow_draft
    THEN Raise(s, "DeploymentFailure", Msg("Can't deploy draft PRs.", <<>>))
    ELSE IF p.merged \/ Truthy(p.merged_by)
    THEN Raise(s, "DeploymentFailure", Msg("Can't deploy a merged PR.", <<>>))
    ELSE IF p.state # "open"
    THEN Raise(s, "DeploymentFailure", Msg("Can't deploy a PR which isn't open.", <<>>))
    ELSE IF p.mergeable_state # "mergeable"
            /\ ~(p.mergeable_state = "draft" \/ s.CONFIG.allow_draft)
    THEN Raise(s, "DeploymentFailure",
               Msg("PR can't be cleanly merged with base branch.", <<>>))
    ELSE Return(s, None)

\* validate_pr(pr)
validate_pr(s, p) ==
    IF p.draft /\ ~s.CONFIG.allow_draft
    THEN Raise(s, "DeploymentFailure", Msg("Can't deploy draft PRs.", <<>>))
    ELSE IF p.merged \/ Truthy(p.merged_by)
    THEN Raise(s, "DeploymentFailure", Msg("Can't deploy a merged PR.", <<>>))
    ELSE IF p.state # "open"
    THEN Raise(s, "DeploymentFailure", Msg("Can't deploy a PR which isn't open.", <<>>))
    ELSE IF p.mergeable_state # "mergeable"
            /\ ~(p.mergeable_state = "draft" /\ s.CONFIG.allow_draft)
    THEN Raise(s, "DeploymentFailure",
               Msg("PR can't be cleanly merged with base branch.", <<>>))
    ELSE Return(s, None)

\* event.get("issue") and event.get("issue").get("pull_request") as conditions
has_issue(ev) == "issue" \in DOMAIN ev /\ DOMAIN ev.issue # {}

has_pull_request(ev) ==
    "pull_request" \in DOMAIN ev.issue /\ DOMAIN ev.issue.pull_request # {}

\* validate_event with the pull-request test moved before the action test
validate_event_pr_first(s, ev) ==
    IF ~has_issue(ev)
    THEN RaiseSystemExit(
             Emit(s, "error", Msg("This event doesn't seem to be an issue comment.", <<>>)), 1)
    ELSE IF ~has_pull_request(ev)
    THEN RaiseSystemExit(
             Emit(s, "plain", Msg("This is not a pull request comment, ignoring.", <<>>)), 0)
    ELSE IF ev.action # "created"
    THEN RaiseSystemExit(
             Emit(s, "plain", Msg("This is not a comment creation, ignoring.", <<>>)), 0)
    ELSE Return(s, None)

\* validate_event(event)
validate_event(s, ev) ==
    IF ~has_issue(ev)
    THEN RaiseSystemExit(
             Emit(s, "error", Msg("This event doesn't seem to be an issue comment.", <<>>)), 1)
    ELSE IF ev.action # "created"
    THEN RaiseSystemExit(
             Emit(s, "plain", Msg("This is not a comment creation, ignoring.", <<>>)), 0)
    ELSE IF ~has_pull_request(ev)
    THEN RaiseSystemExit(
             Emit(s, "plain", Msg("This is not a pull request comment, ignoring.", <<>>)), 0)
    ELSE Return(s, None)

\* react_to_original_comment(event)
react_to_original_comment(s, ev, resp) ==
    LET s1 == Request(s, [method |-> "POST", kind |-> "reaction",
                          url |-> ev.comment.url,
                          json |-> [content |-> "rocket"],
                          response |-> [code |-> resp]])
    IN  IF resp = "2xx" THEN Return(s1, None)
        ELSE Raise(s1, IF resp = "4xx" THEN "HTTPError" ELSE resp, NoMsg)

-----------------------------------------------------------------------------
(* The inputs of a run.                                                    *)

\* A choice of environment variables, None for a variable that is not set,
\* as the function os.environ is.
MkEnviron(c) == [n \in {m \in DOMAIN c : c[m] # None} |-> c[n]]

\* the values given to the boolean-like inputs
FlagValues == {None, S_True, S_false}

Environs ==
    {MkEnviron(c) : c \in
        [GITHUB_ACTION : {None, S_true},
         GITHUB_TOKEN : {None, S_octocat},
         GITHUB_EVENT_PATH : {None, S_envs_json},
         INPUT_TRIGGER_PHRASE : {None, S_slash_deploy},
         INPUT_ENVIRONMENT_VALIDATION_FILE : {None, <<>>, S_envs_json},
         INPUT_ALLOW_DRAFT_DEPLOY : FlagValues,
         INPUT_IGNORE_STATUS_CHECKS : FlagValues,
         INPUT_COMMENT : FlagValues]}

\* the environments of a run inside GitHub Actions with the token passed
ActionEnvirons ==
    {env \in Environs :
        {"GITHUB_ACTION", "GITHUB_TOKEN", "GITHUB_EVENT_PATH"} \subseteq DOMAIN env}

Bodies ==
    {B_deploy_to_staging, B_deploy_to, B_deploy_to_blank, B_deploy_to_prod_padded,
     B_deploy_to_qa, B_Deploy_to_staging, B_please_deploy, B_lgtm,
     B_slash_deploy_staging}

\* an issue_comment event
CommentEvent(action, on_pr, body) ==
    [action |-> action,
     issue |-> IF on_pr
               THEN [number |-> 7, pull_request |-> [url |-> "pulls/7"]]
               ELSE [number |-> 7],
     comment |-> [body |-> body, user |-> [login |-> S_octocat],
                  url |-> "comments/1"]]

\* an event of another kind, which has no issue
PushEvent == [ref |-> "refs/heads/main"]

Events ==
    {PushEvent} \cup
    {CommentEvent(a, p, b) : a \in {"created", "edited", "deleted"},
                             p \in BOOLEAN, b \in Bodies}

\* what open(GITHUB_EVENT_PATH) and json.load find
EventFiles ==
    {[ok |-> FALSE, json |-> PushEvent]} \cup {[ok |-> TRUE, json |-> ev] : ev \in Events}

PullRequests ==
    [draft : BOOLEAN,
     merged : BOOLEAN,
     merged_by : {None, S_octocat},
     state : {"open", "closed"},
     mergeable_state : {"mergeable", "dirty", "draft", "clean"},
     head : [sha : {S_sha1, S_sha2}, repo : [full_name : {S_repo}]],
     number : {7},
     comments_url : {"issues/7/comments"}]

\* the records an environment validation file lists
EnvRecords ==
    {[name |-> n] : n \in {S_staging, S_prod, S_production}} \cup
    {[name |-> n, production |-> FALSE] : n \in {S_staging, S_prod}} \cup
    {[name |-> S_prod, transient |-> TRUE, production |-> TRUE]}

\* the longest environment validation file
MaxEnvs == 2

RECURSIVE SeqsUpTo(_, _)
SeqsUpTo(S, n) ==
    IF n = 0 THEN {<<>>}
    ELSE LET shorter == SeqsUpTo(S, n - 1)
         IN  shorter \cup {Append(q, x) : q \in shorter, x \in S}

\* what open(CONFIG["env_file"]) and json.load find
EnvFiles ==
    {[readable |-> FALSE, json |-> FALSE, envs |-> <<>>],
     [readable |-> TRUE, json |-> FALSE, envs |-> <<>>]} \cup
    {[readable |-> TRUE, json |-> TRUE, envs |-> q] : q \in SeqsUpTo(EnvRecords, MaxEnvs)}

S_ci == <<"c", "i">>
S_lint == <<"l", "i", "n", "t">>

\* the combined status of a commit
Statuses ==
    {[state |-> "success", statuses |-> <<[context |-> S_ci, state |-> "success"]>>],
     [state |-> "success", statuses |-> <<>>],
     [state |-> "pending", statuses |-> <<[context |-> S_ci, state |-> "pending"]>>],
     [state |-> "failure", statuses |-> <<[context |-> S_ci, state |-> "success"],
                                          [context |-> S_lint, state |-> "failure"]>>]}

-----------------------------------------------------------------------------
(* __main__ up to the pull request.                                        *)

HintMsg ==
    Msg("Missing GITHUB_TOKEN environment variable. (hint: env: GITHUB_TOKEN: secrets.GITHUB_TOKEN)",
        <<>>)

\* the variable whose absence the startup check tests
StartupVariable == "GITHUB_ACTION"

\* the startup check and the two os.environ[...] reads
main_startup(s, env) ==
    IF StartupVariable \notin DOMAIN env
    THEN SysExit(Emit(s, "error", HintMsg), 1)
    ELSE IF "GITHUB_TOKEN" \notin DOMAIN env THEN Uncaught(s, "KeyError")
    ELSE IF "GITHUB_EVENT_PATH" \notin DOMAIN env THEN Uncaught(s, "KeyError")
    ELSE Goto(s, "config")

\* os.environ.get(name, default).lower() == "true"
flag(env, name, default) == lower(environ_get(env, name, default)) = S_true

\* the CONFIG dict literal
load_config(env) ==
    [trigger |-> environ_get(env, "INPUT_TRIGGER_PHRASE", S_deploy_to),
     env_file |-> environ_get(env, "INPUT_ENVIRONMENT_VALIDATION_FILE", None),
     allow_draft |-> flag(env, "INPUT_ALLOW_DRAFT_DEPLOY", S_false),
     ignore_status_checks |-> flag(env, "INPUT_IGNORE_STATUS_CHECKS", S_false),
     comment |-> flag(env, "INPUT_COMMENT", S_true)]

\* __main__ with no except clause: a DeploymentFailure ends the process
Handle_no_except(r, next, handler) ==
    IF r.raised = "" THEN Goto(r.s, next)
    ELSE IF r.raised = "SystemExit" THEN SysExit(r.s, r.code)
    ELSE Uncaught(r.s, r.raised)

\* What __main__ does with what a call handed back: go on, leave through
\* sys.exit, enter the except clause of the try block around the call
\* (handler, "" outside a try block), or die of the exception.
Handle(r, next, handler) ==
    IF r.raised = "" THEN Goto(r.s, next)
    ELSE IF r.raised = "SystemExit" THEN SysExit(r.s, r.code)
    ELSE IF r.raised = "DeploymentFailure" /\ handler # ""
    THEN [Goto(r.s, handler) EXCEPT !.e = r.e]
    ELSE Uncaught(r.s, r.raised)

Startup ==
    /\ pc = "start"
    /\ Apply(main_startup(St, environ))

LoadConfig ==
    /\ pc = "config"
    /\ Apply([Goto(St, "load_event") EXCEPT !.CONFIG = load_config(environ)])

\* event = json.load(open(GITHUB_EVENT_PATH))
LoadEvent ==
    /\ pc = "load_event"
    /\ Apply(IF eventFile.ok
             THEN [Goto(St, "validate_event") EXCEPT !.event = eventFile.json]
             ELSE Uncaught(St, "JSONDecodeError"))

ValidateEvent ==
    /\ pc = "validate_event"
    /\ Apply(Handle(validate_event(St, event), "load_pr", ""))

\* pr = load_pr(CONFIG["pr_url"]): the argument is evaluated first
main_load_pr(s, resp, body) ==
    IF "pr_url" \notin DOMAIN s.CONFIG THEN Uncaught(s, "KeyError")
    ELSE LET r == load_pr(s, s.CONFIG.pr_url, resp, body)
         IN  [Handle(r, "validate_pr", "") EXCEPT !.pr = r.ret]

LoadPr ==
    /\ pc = "load_pr"
    /\ \E resp \in Responses, body \in PullRequests :
           Apply(main_load_pr(St, resp, body))

\* the state of the process as the script starts
Fresh ==
    [pc |-> "start", CONFIG |-> Unset, event |-> Unset, pr |-> Unset,
     environment_name |-> None, environment |-> Unset, e |-> NoMsg,
     http |-> <<>>, log |-> <<>>, outputs |-> <<>>, exit |-> -1, exc |-> ""]

Init ==
    /\ environ \in Environs
    /\ eventFile \in EventFiles
    /\ pc = "start"
    /\ CONFIG = Unset
    /\ event = Unset
    /\ pr = Unset
    /\ environment_name = None
    /\ environment = Unset
    /\ e = NoMsg
    /\ http = <<>>
    /\ log = <<>>
    /\ outputs = <<>>
    /\ exit = -1
    /\ exc = ""

Next == Startup \/ LoadConfig \/ LoadEvent \/ ValidateEvent \/ LoadPr

Spec == Init /\ [][Next]_vars

-----------------------------------------------------------------------------
(* __main__ from the pull request on: the two try blocks.                  *)

\* validate_pr(pr), first statement of the first try block
main_validate_pr(s) ==
    Handle(validate_pr(s, s.pr), "parse_message", "fail_first")

\* environment_name = parse_message(event["comment"])
main_parse_message(s) ==
    LET r == parse_message(s, s.event.comment)
        t == Handle(r, "get_environment", "fail_first")
    IN  IF r.raised = "" THEN [t EXCEPT !.environment_name = r.ret] ELSE t

\* the except clause of the first try block
main_fail_first(s, resp) ==
    LET r == add_comment(s, s.pr.comments_url,
                         Msg("Deployment failed: " \o s.e.text, s.e.args),
                         TRUE, resp)
    IN  IF r.raised = "" THEN SysExit(r.s, 1) ELSE Uncaught(r.s, r.raised)

\* environment = get_environment(environment_name)
main_get_environment(s, file) ==
    LET r == get_environment(s, s.environment_name, file)
        t == Handle(r, "check_commit", "fail_second")
    IN  IF r.raised = "" THEN [t EXCEPT !.environment = r.ret] ELSE t

\* check_commit(head_repo, sha)
main_check_commit(s, resp, status) ==
    Handle(check_commit(s, s.pr.head.repo.full_name, s.pr.head.sha, resp, status),
           "trigger_deployment", "fail_second")

\* trigger_deployment(head_repo=head_repo, ref=sha, environment=environment,
\*                    description=f"Automatic deployment from #{pr_num}")
main_trigger_deployment(s, resp) ==
    Handle(trigger_deployment(s, s.pr.head.repo.full_name, s.pr.head.sha,
                              s.environment,
                              [text |-> "Automatic deployment from #{pr_num}",
                               pr_num |-> s.pr.number],
                              resp),
           "react", "fail_second")

\* the except clause of the second try block
main_fail_second(s, resp) ==
    LET r == add_comment(s, s.pr.comments_url,
                         Msg("Deployment to {environment_name} failed: " \o s.e.text,
                             <<s.environment_name>> \o s.e.args),
                         TRUE, resp)
    IN  IF r.raised = "" THEN SysExit(r.s, 1) ELSE Uncaught(r.s, r.raised)

\* the else clause: react_to_original_comment(event)
main_react(s, resp) ==
    Handle(react_to_original_comment(s, s.event, resp), "success_comment", "")

\* the else clause: the success comment
main_success_comment(s, resp) ==
    Handle(add_comment(s, s.pr.comments_url,
                       Msg("@{comment_author}: Triggered [deployment](https://github.com/{head_repo}/deployments) to {environment_name}.",
                           <<s.event.comment.user.login, s.pr.head.repo.full_name,
                             s.environment_name>>),
                       FALSE, resp),
           "finish", "")

\* debug("Finished.") and the end of the script
main_finish(s) == SysExit(s, 0)

ValidatePr ==
    /\ pc = "validate_pr"
    /\ Apply(main_validate_pr(St))

ParseMessage ==
    /\ pc = "parse_message"
    /\ Apply(main_parse_message(St))

FailFirst ==
    /\ pc = "fail_first"
    /\ \E resp \in Responses : Apply(main_fail_first(St, resp))

GetEnvironment ==
    /\ pc = "get_environment"
    /\ \E file \in EnvFiles : Apply(main_get_environment(St, file))

CheckCommit ==
    /\ pc = "check_commit"
    /\ \E resp \in Responses, status \in Statuses :
           Apply(main_check_commit(St, resp, status))

TriggerDeployment ==
    /\ pc = "trigger_deployment"
    /\ \E resp \in Responses : Apply(main_trigger_deployment(St, resp))

FailSecond ==
    /\ pc = "fail_second"
    /\ \E resp \in Responses : Apply(main_fail_second(St, resp))

React ==
    /\ pc = "react"
    /\ \E resp \in Responses : Apply(main_react(St, resp))

SuccessComment ==
    /\ pc = "success_comment"
    /\ \E resp \in Responses : Apply(main_success_comment(St, resp))

Finish ==
    /\ pc = "finish"
    /\ Apply(main_finish(St))

\* The state in which load_pr returns when its GET is sent to the pull
\* request of the event: the event passed validate_event, pr is the response.
InitSteps ==
    /\ environ \in ActionEnvirons
    /\ eventFile \in {f \in EventFiles :
                         f.ok /\ validate_event(Fresh, f.json).raised = ""}
    /\ pc = "validate_pr"
    /\ CONFIG = load_config(environ)
    /\ event = eventFile.json
    /\ pr \in PullRequests
    /\ environment_name = None
    /\ environment = Unset
    /\ e = NoMsg
    /\ http = <<[method |-> "GET", kind |-> "pull_request",
                 url |-> event.issue.pull_request.url,
                 response |-> [code |-> "2xx"]]>>
    /\ log = <<>>
    /\ outputs = <<>>
    /\ exit = -1
    /\ exc = ""

NextSteps ==
    \/ ValidatePr \/ ParseMessage \/ FailFirst
    \/ GetEnvironment \/ CheckCommit \/ TriggerDeployment \/ FailSecond
    \/ React \/ SuccessComment \/ Finish

SpecSteps == InitSteps /\ [][NextSteps]_vars

-----------------------------------------------------------------------------
(* Properties of the run as a whole, checked under Spec.                   *)

\* the requests of one kind, in the order they were issued
Requests(kind) == SelectSeq(http, LAMBDA r : r.kind = kind)

\* the kinds of the POSTs issued, in order
PostKinds ==
    LET posts == SelectSeq(http, LAMBDA r : r.method = "POST")
    IN  [i \in 1..Len(posts) |-> posts[i].kind]

\* the process wrote exactly this line and left with this code, by sys.exit
ExitedWith(code, level, text) ==
    /\ pc = "exited"
    /\ exit = code
    /\ exc = ""
    /\ log = <<[level |-> level, msg |-> Msg(text, <<>>)]>>

\* a pull request as the end-to-end case has it
OpenMergeableNonDraft(p) ==
    /\ ~p.draft
    /\ ~p.merged
    /\ p.merged_by = None
    /\ p.state = "open"
    /\ p.mergeable_state = "mergeable"

\* the inputs of the end-to-end case: every input at its default, a created
\* comment "deploy to staging" on a pull request
EndToEndInputs ==
    /\ DOMAIN environ = {"GITHUB_ACTION", "GITHUB_TOKEN", "GITHUB_EVENT_PATH"}
    /\ eventFile = [ok |-> TRUE,
                    json |-> CommentEvent("created", TRUE, B_deploy_to_staging)]

\* C1, as claimed: a run on a created pull-request comment "deploy to
\* staging" with the default trigger phrase, whose pull request (once the run
\* holds one) is open, mergeable and not a draft, ends with exit code 0 after
\* exactly one deployment POST, for environment "staging", then a reaction
\* POST, then a comment POST.
C1_EndToEndSuccess ==
    (pc = "exited" /\ EndToEndInputs
        /\ ("unset" \in DOMAIN pr \/ OpenMergeableNonDraft(pr)))
    => /\ exit = 0
       /\ PostKinds = <<"deployment", "reaction", "comment">>
       /\ Requests("deployment")[1].json.environment = S_staging

\* a run inside GitHub Actions on a created pull-request comment whose body
\* does not start with the configured trigger phrase
NoTriggerInputs ==
    /\ environ \in ActionEnvirons
    /\ eventFile.ok
    /\ validate_event(Fresh, eventFile.json).raised = ""
    /\ ~startswith(eventFile.json.comment.body, load_config(environ).trigger)

\* C2, as claimed: a run on a comment that does not start with the trigger
\* phrase ends with exit code 0 and issues neither a deployment POST nor a
\* comment POST, whatever the pull request and the configuration.
C2_NoTriggerExitsZero ==
    (pc = "exited" /\ NoTriggerInputs)
    => /\ exit = 0
       /\ Requests("deployment") = <<>>
       /\ Requests("comment") = <<>>

\* the process ended at startup with the hint about GITHUB_TOKEN
HintExit ==
    /\ ExitedWith(1, "error", HintMsg.text)
    /\ "unset" \in DOMAIN CONFIG
    /\ "unset" \in DOMAIN event
    /\ http = <<>>

\* C6, as claimed: without GITHUB_TOKEN the startup check prints the hint
\* and exits 1 before the event is read or a request is made; with
\* GITHUB_TOKEN and GITHUB_EVENT_PATH set the run goes on to load the event.
C6_TokenRequired ==
    [][pc = "start" =>
          /\ "GITHUB_TOKEN" \notin DOMAIN environ => HintExit'
          /\ {"GITHUB_TOKEN", "GITHUB_EVENT_PATH"} \subseteq DOMAIN environ
                => pc' = "config"]_vars

\* C7: validate_event ends the run without any request, with exit code 1 if
\* the event has no issue, else with exit code 0 if the action is not
\* "created", else with exit code 0 if the issue is not a pull request; on
\* every other event the run goes on to the pull-request fetch.
C7_EventValidation ==
    [][pc = "validate_event" =>
          /\ http' = <<>>
          /\ IF ~has_issue(event)
             THEN ExitedWith(1, "error",
                             "This event doesn't seem to be an issue comment.")'
             ELSE IF event.action # "created"
             THEN ExitedWith(0, "plain", "This is not a comment creation, ignoring.")'
             ELSE IF ~has_pull_request(event)
             THEN ExitedWith(0, "plain",
                             "This is not a pull request comment, ignoring.")'
             ELSE pc' = "load_pr" /\ exit' = -1 /\ log' = <<>>]_vars

\* C7's case: an edited comment on a plain issue was turned away as "not a
\* comment creation"
C7_Witness ==
    /\ has_issue(event)
    /\ event.action = "edited"
    /\ ~has_pull_request(event)
    /\ ExitedWith(0, "plain", "This is not a comment creation, ignoring.")

-----------------------------------------------------------------------------
(* Properties of the two try blocks, checked under SpecSteps.              *)

\* the comment the except clauses make of the failure e
FailureReport ==
    IF environment_name = None
    THEN Msg("Deployment failed: " \o e.text, e.args)
    ELSE Msg("Deployment to {environment_name} failed: " \o e.text,
             <<environment_name>> \o e.args)

CantMergeText == "PR can't be cleanly merged with base branch."

WithComment(s, b) == [s EXCEPT !.CONFIG.comment = b]

\* a state but for the comment flag and the comment POSTs
Rest(s) ==
    [s EXCEPT !.CONFIG.comment = TRUE,
              !.http = SelectSeq(@, LAMBDA r : r.kind # "comment")]

\* what the claim lists of the rest of a run: the requests that are not
\* comment POSTs (the deployment and reaction POSTs among them), the exit
\* code, the log and the outputs
Observed(s) ==
    [http |-> SelectSeq(s.http, LAMBDA r : r.kind # "comment"),
     exit |-> s.exit, log |-> s.log, outputs |-> s.outputs]

\* a step of __main__ leaves the same state, but for the flag and the comment
\* POSTs, with the flag set and with it not set
SameRest(step(_)) ==
    Rest(step(WithComment(St, FALSE))) = Rest(step(WithComment(St, TRUE)))

SameObserved(step(_)) ==
    Observed(step(WithComment(St, FALSE))) = Observed(step(WithComment(St, TRUE)))

\* with the flag not set, the step writes the line it writes with the flag
\* set and issues no request
LoggedNotPosted(step(_)) ==
    LET off == step(WithComment(St, FALSE))
        on == step(WithComment(St, TRUE))
    IN  /\ off.log = on.log
        /\ Len(off.log) = Len(log) + 1
        /\ off.http = http

\* the steps that do not call add_comment do the same with the flag set and
\* with it not set
OtherStepsSame ==
    /\ pc = "validate_pr" => SameRest(main_validate_pr)
    /\ pc = "parse_message" => SameRest(main_parse_message)
    /\ pc = "get_environment" =>
          \A file \in EnvFiles : SameRest(LAMBDA s : main_get_environment(s, file))
    /\ pc = "check_commit" =>
          \A resp \in Responses, status \in Statuses :
              SameRest(LAMBDA s : main_check_commit(s, resp, status))
    /\ pc = "trigger_deployment" =>
          \A resp \in Responses : SameRest(LAMBDA s : main_trigger_deployment(s, resp))
    /\ pc = "react" =>
          \A resp \in Responses : SameRest(LAMBDA s : main_react(s, resp))
    /\ pc = "finish" => SameRest(main_finish)

Least(S) == CHOOSE i \in S : \A j \in S : i <= j

DoesntExistText ==
    "Environment '{environment}' doesn't exist in CONFIG['env_file'] ({env_file})."

PassesValidation(p) ==
    /\ ~(p.draft /\ ~CONFIG.allow_draft)
    /\ ~p.merged
    /\ p.merged_by = None
    /\ p.state = "open"
    /\ \/ p.mergeable_state = "mergeable"
       \/ p.mergeable_state = "draft" /\ CONFIG.allow_draft

====
